---- MODULE Spec2Model ----
(***************************************************************************)
(* Model of the incremental cursor / asynchronous report-job protocol and  *)
(* of the status slicer of source-facebook-marketing (streams.py), and of  *)
(* the cursor update and the pagination of source-aws-cloudtrail           *)
(* (source.py).                                                            *)
(*                                                                         *)
(* Time is an integer number of seconds.  A pendulum DateTime is the       *)
(* number of seconds since day 0, 00:00; a pendulum Interval is a number   *)
(* of seconds; a date string ("YYYY-MM-DD") is a day number.               *)
(***************************************************************************)
EXTENDS Integers, Sequences, FiniteSets, TLC

(***************************************************************************)
(* Bounds of the model.                                                    *)
(***************************************************************************)
\* days between the start date and "now" in a run of list()
MaxSpanDays == 2
\* largest days_per_job of a run of list()
MaxDaysPerJob == 2
\* status fetches that take noticeable time in one run of list()
MaxLate == 1
\* records in the result of one report job, in a run of list() over several windows
MaxRecords == 1
\* records in the result of the report job of a run of list() over one window
MaxPassRecords == 2
\* status fetches that find a job unfinished, per job of a run over several windows
MaxNaps == 1
\* a call of wait_for_job may meet a FacebookRequestError in one of its first MaxFailAt
\* status fetches
MaxFailAt == 2
\* latest DateTime of a persisted cursor or of a record handed to get_updated_state
MaxStamp == 2
\* calls of get_updated_state in one chain
MaxCalls == 2
\* pages of events the vendor holds for one read_records, and events in one page
MaxPages == 3
MaxPageSize == 2
\* longest chunk of status labels a split filter is given
MaxChunk == 15
\* inputs of the window planner checked on its own
MaxPlanBuffer == 5
MaxPlanDaysPerJob == 10
MaxPlanSpanDays == 31

(***************************************************************************)
(* pendulum                                                                *)
(***************************************************************************)
Day == 24 * 60 * 60
\* pendulum.Interval(days=n), pendulum.Interval(minutes=n)
IntervalDays(n) == n * Day
IntervalMinutes(n) == n * 60
\* DateTime.to_date_string(): the date of a DateTime, its time of day dropped
ToDateString(t) == t \div Day
\* max(a, b) of two DateTimes
Max(a, b) == IF a >= b THEN a ELSE b
Min(a, b) == IF a <= b THEN a ELSE b

\* Python's None where a DateTime, an Interval or a number is expected: no time is negative
None == 0 - 1
\* Python's None where a string is expected
NoneStr == "None"

(***************************************************************************)
(* Class attributes                                                        *)
(***************************************************************************)
\* FBMarketingIncrementalStream.buffer_days
buffer_days == -1
\* AdsInsights.MAX_WAIT_TO_START, MAX_WAIT_TO_FINISH, MAX_ASYNC_SLEEP
MAX_WAIT_TO_START == IntervalMinutes(5)
MAX_WAIT_TO_FINISH == IntervalMinutes(30)
MAX_ASYNC_SLEEP == IntervalMinutes(5)
\* wait_for_job: factor = 2
factor == 2

\* values of job["async_status"]; the first three are the ones the poller names
JobCompleted == "Job Completed"
JobFailed == "Job Failed"
JobSkipped == "Job Skipped"
NonTerminal == {"Job Started", "Job Running"}
Statuses == {JobCompleted, JobFailed, JobSkipped} \cup NonTerminal
\* values of job["async_percent_completion"]
Percents == {0, 50, 100}

VARIABLES
    now,                \* pendulum.now(): the clock
    state,              \* self._state, the tracked watermark
    start_date,         \* self._start_date
    cfg_buffer_days,    \* self._buffer_days, the configured buffer
    sync_interval,      \* self._sync_interval
    pc,                 \* position of list()
    end_date,           \* _params: end_date
    windows,            \* the time_range of every params dict _params yields
    jobs,               \* list: jobs
    cur,                \* list: index in jobs of `job` of the second loop
    start_time,         \* wait_for_job: start_time
    sleep_seconds,      \* wait_for_job: sleep_seconds
    sleeps,             \* the intervals time.sleep was called with in this wait_for_job
    async_status,       \* job["async_status"] of the last poll
    job_progress_pct,   \* wait_for_job: job_progress_pct
    runtime,            \* wait_for_job: runtime
    error,              \* the JobTimeoutException list() ended with, if any
    latest_cursor,      \* read: latest_cursor
    nread,              \* records the job result has produced in this pass
    yielded,            \* cursor values of the records this pass yielded
    returned,           \* indexes of the jobs wait_for_job returned for
    retrieved,          \* indexes of the jobs whose result was read
    stream,             \* the connector whose get_updated_state is called
    enable_deleted,     \* the stream class's enable_deleted
    include_deleted,    \* the include_deleted argument of FBMarketingStream.__init__
    stream_state,       \* the persisted state, a dict, as the next call receives it
    history,            \* the calls of get_updated_state so far, in order
    latency,            \* the times, in seconds, a status fetch of this vendor may take
    late,               \* status fetches so far that took noticeable time
    seen,               \* the records the job result produced in this pass, and what read did
    out,                \* the records list() has yielded so far, each with the index of its job
    tries,              \* calls of wait_for_job the retry wrapper has made for this job
    patience,           \* status fetches after which a job of this vendor is over, or None
    result_max,         \* the most records a job result of this account holds
    split_deleted_filter, \* the stream class's split_deleted_filter
    split_length,       \* the length of the chunks of a split filter: 3 in line 100
    entity_prefix,      \* the stream class's entity_prefix
    sub_list_length,    \* _status_slices: sub_list_length
    slice_i,            \* _status_slices: i
    slices,             \* the dicts _status_slices has yielded
    slice_pc,           \* position of _status_slices
    slicing,            \* position of stream_slices
    out_slices,         \* the slices stream_slices has yielded
    pages,              \* the responses the vendor has for lookup_events, in order
    read_pc,            \* position of read_records
    pagination_complete, \* read_records: pagination_complete
    next_page_token,    \* read_records: next_page_token
    response,           \* read_records: response
    event_i,            \* parse_response: events of response yielded so far
    requests,           \* the params of every send_request so far, in order
    responses,          \* the response to every send_request so far, in order
    read_out,           \* the records read_records has yielded, in order
    flaky               \* whether a status fetch of this vendor may raise FacebookRequestError

sliceVars == <<split_deleted_filter, split_length, entity_prefix, sub_list_length, slice_i,
               slices, slice_pc, slicing, out_slices>>

pageVars == <<pages, read_pc, pagination_complete, next_page_token, response, event_i,
              requests, responses, read_out>>

vars == <<now, state, start_date, cfg_buffer_days, sync_interval, pc, end_date,
          windows, jobs, cur, start_time, sleep_seconds, sleeps, async_status,
          job_progress_pct, runtime, error, latest_cursor, nread, yielded,
          returned, retrieved, latency, late, seen, out, tries, flaky,
          patience, result_max, stream, enable_deleted, include_deleted, stream_state, history,
          sliceVars, pageVars>>

pollVars == <<start_time, sleep_seconds, sleeps, async_status, job_progress_pct, runtime,
              tries>>
readVars == <<latest_cursor, nread, yielded, seen>>
stateVars == <<stream, enable_deleted, include_deleted, stream_state, history>>
\* what list() never assigns
confVars == <<start_date, cfg_buffer_days, sync_interval, latency, flaky, patience,
              result_max, stateVars, sliceVars, pageVars>>
\* what get_updated_state never assigns
listVars == <<now, state, start_date, cfg_buffer_days, sync_interval, latency, pc, end_date,
              windows, jobs, cur, pollVars, readVars, error, returned, retrieved, late,
              out, flaky, patience, result_max, sliceVars, pageVars>>

(***************************************************************************)
(* AdsInsights._params                                                     *)
(***************************************************************************)
\* one params dict, reduced to its time_range
TimeRange(buffered_start_date, buffered_end_date) ==
    [since |-> ToDateString(buffered_start_date), until |-> ToDateString(buffered_end_date)]

\* the loop of _params, were the upper bound of a window clipped to end_date
RECURSIVE ParamsLoopClipped(_, _, _)
ParamsLoopClipped(buffered_start_date, endDate, interval) ==
    IF buffered_start_date <= endDate
    THEN LET buffered_end_date == buffered_start_date + interval
         IN  <<TimeRange(buffered_start_date, Min(buffered_end_date, endDate))>>
                 \o ParamsLoopClipped(buffered_end_date, endDate, interval)
    ELSE <<>>

\* the while loop of _params
RECURSIVE ParamsLoop(_, _, _)
ParamsLoop(buffered_start_date, endDate, interval) ==
    IF buffered_start_date <= endDate
    THEN LET buffered_end_date == buffered_start_date + interval
         IN  <<TimeRange(buffered_start_date, buffered_end_date)>>
                 \o ParamsLoop(buffered_end_date, endDate, interval)
    ELSE <<>>

\* buffered_start_date = self._state - pendulum.Interval(days=self.buffer_days)
BufferedStartDate(st) == st - IntervalDays(buffer_days)

\* every params dict _params yields, in order
Params(st, endDate, interval) == ParamsLoop(BufferedStartDate(st), endDate, interval)

(***************************************************************************)
(* AdsInsights.wait_for_job                                                *)
(***************************************************************************)
\* the iteration, were the start timeout reached at MAX_WAIT_TO_START itself
WaitOutcomeAtLimit(status, rt, pct) ==
    IF status = JobCompleted THEN "return"
    ELSE IF status = JobFailed THEN "failed"
    ELSE IF status = JobSkipped THEN "skipped"
    ELSE IF rt >= MAX_WAIT_TO_START /\ pct = 0 THEN "did not start"
    ELSE IF rt > MAX_WAIT_TO_FINISH THEN "did not finish"
    ELSE "sleep"

\* the iteration, were the finish timeout tested before the start timeout
WaitOutcomeFinishFirst(status, rt, pct) ==
    IF status = JobCompleted THEN "return"
    ELSE IF status = JobFailed THEN "failed"
    ELSE IF status = JobSkipped THEN "skipped"
    ELSE IF rt > MAX_WAIT_TO_FINISH THEN "did not finish"
    ELSE IF rt > MAX_WAIT_TO_START /\ pct = 0 THEN "did not start"
    ELSE "sleep"

\* the iteration, were the timeouts tested before the status
WaitOutcomeTimeoutFirst(status, rt, pct) ==
    IF rt > MAX_WAIT_TO_START /\ pct = 0 THEN "did not start"
    ELSE IF rt > MAX_WAIT_TO_FINISH THEN "did not finish"
    ELSE IF status = JobCompleted THEN "return"
    ELSE IF status = JobFailed THEN "failed"
    ELSE IF status = JobSkipped THEN "skipped"
    ELSE "sleep"

\* the iteration, were there no finish timeout
WaitOutcomePatient(status, rt, pct) ==
    IF status = JobCompleted THEN "return"
    ELSE IF status = JobFailed THEN "failed"
    ELSE IF status = JobSkipped THEN "skipped"
    ELSE IF rt > MAX_WAIT_TO_START /\ pct = 0 THEN "did not start"
    ELSE "sleep"

\* what one iteration of the loop does with the status it fetched
WaitOutcome(status, rt, pct) ==
    IF status = JobCompleted THEN "return"
    ELSE IF status = JobFailed THEN "failed"
    ELSE IF status = JobSkipped THEN "skipped"
    ELSE IF rt > MAX_WAIT_TO_START /\ pct = 0 THEN "did not start"
    ELSE IF rt > MAX_WAIT_TO_FINISH THEN "did not finish"
    ELSE "sleep"

\* sleep_seconds after time.sleep(sleep_seconds)
NextSleep(s) == IF s < MAX_ASYNC_SLEEP THEN s * factor ELSE s

(***************************************************************************)
(* backoff_policy = retry_pattern(backoff.expo, FacebookRequestError,      *)
(* max_tries=5, factor=5), which decorates wait_for_job: a transient       *)
(* FacebookRequestError that leaves the decorated function makes the       *)
(* wrapper wait and call the function again, max_tries calls at most.      *)
(***************************************************************************)
max_tries == 5
backoff_factor == 5
\* backoff.expo: the wait after call number n of the decorated function has failed
Expo(n) == backoff_factor * 2 ^ (n - 1)

(***************************************************************************)
(* FBMarketingIncrementalStream.read                                       *)
(***************************************************************************)
\* the filter, were its boundary the configured buffer before the watermark
FilteredByBuffer(st, cursor) == st # None /\ st - IntervalDays(cfg_buffer_days + 1) >= cursor

\* the filter, were a record at the boundary let through
FilteredStrict(st, cursor) == st # None /\ st - IntervalDays(buffer_days + 1) > cursor

\* the record is skipped: self._state and self._state.subtract(days=buffer_days + 1) >= cursor
Filtered(st, cursor) == st # None /\ st - IntervalDays(buffer_days + 1) >= cursor

\* latest_cursor, were it the cursor of the last record yielded
NextLatestLast(latest, cursor) == cursor

\* latest_cursor = max(cursor, latest_cursor) if latest_cursor else cursor
NextLatest(latest, cursor) == IF latest # None THEN Max(cursor, latest) ELSE cursor

\* the bookmark, were it set without the test `if latest_cursor`
AdvanceStateUnguarded(st, latest) == latest

\* if latest_cursor: self._state = max(latest_cursor, self._state) if self._state else latest_cursor
AdvanceState(st, latest) ==
    IF latest = None THEN st
    ELSE IF st # None THEN Max(latest, st) ELSE latest

(***************************************************************************)
(* Dicts, and DateTimes written as strings                                 *)
(***************************************************************************)
\* the dict {}
EmptyDict == <<>>
\* d.get(key, default)
Get(d, key, default) == IF key \in DOMAIN d THEN d[key] ELSE default
\* str(t) of a DateTime t: its ISO 8601 text; pendulum.parse(text): the DateTime it names
Str(t) == [iso |-> t]
Parse(text) == text.iso

(***************************************************************************)
(* FBMarketingIncrementalStream.get_updated_state                          *)
(*                                                                         *)
(* Lines 140 and 142 of streams.py leave a call open.  They are read here  *)
(* with each call closed where it stands: line 140 assigns cursor_value,   *)
(* and line 142 is an expression whose value nothing uses.                 *)
(***************************************************************************)
\* FBMarketingIncrementalStream.cursor_field
cursor_field == "updated_time"

\* self._include_deleted
IncludeDeleted == IF enable_deleted THEN include_deleted ELSE FALSE

\* potentially_new_records_in_the_past
PotentiallyNewRecordsInThePast(current_stream_state) ==
    IncludeDeleted /\ ~Get(current_stream_state, "include_deleted", FALSE)

\* the cursor, were the bookmark kept when include_deleted has just been enabled
CursorValueKeepingBookmark(current_stream_state) ==
    IF cursor_field \in DOMAIN current_stream_state
    THEN Parse(current_stream_state[cursor_field])
    ELSE start_date

\* the cursor, were the bookmark ignored in every call
CursorValueFromStartDate(current_stream_state) == start_date

\* cursor_value: self._start_date, or in the else branch
\* pendulum.parse(current_stream_state.get(self.cursor_field, self._start_date))
CursorValue(current_stream_state) ==
    IF PotentiallyNewRecordsInThePast(current_stream_state)
    THEN start_date
    ELSE IF cursor_field \in DOMAIN current_stream_state
         THEN Parse(current_stream_state[cursor_field])
         ELSE start_date

\* the dict returned, were it the cursor alone
FBGetUpdatedStateCursorOnly(current_stream_state, latest_record) ==
    cursor_field :> Str(CursorValue(current_stream_state))

\* the dict returned; latest_record is not read
FBGetUpdatedState(current_stream_state, latest_record) ==
    (cursor_field :> Str(CursorValue(current_stream_state)))
        @@ ("include_deleted" :> IncludeDeleted)

(***************************************************************************)
(* IncrementalAwsCloudtrailStream.get_updated_state                        *)
(***************************************************************************)
\* Events.cursor_field, Events.time_field
ct_cursor_field == "StartTime"
time_field == "EventTime"

CTGetUpdatedState(current_stream_state, latest_record) ==
    LET record_time == latest_record[time_field]
    IN  ct_cursor_field :> Max(record_time, Get(current_stream_state, ct_cursor_field, 0))

(***************************************************************************)
(* The environment: the vendor and the clock                               *)
(***************************************************************************)
\* the first day of the model
T0 == IntervalDays(100)
\* a vendor that answers at once, and one whose answer may take most of a minute
Prompt == {0}
Slow == {0, 45, 46, 47}
\* a status fetch takes noticeable time at most MaxLate times in a run
Latencies == IF late < MaxLate THEN latency ELSE {0}
Later(lat) == IF lat = 0 THEN late ELSE late + 1
\* record[self.cursor_field] of the records a job result may hold
CursorValues == {T0 - Day, T0, T0 + Day, T0 + 2 * Day}

(***************************************************************************)
(* AdsInsights.__init__                                                    *)
(***************************************************************************)
InitWith(startDates, nows, daysPerJob, bufferDays, vendor, naps, records) ==
    /\ start_date \in startDates
    /\ latency = vendor
    /\ patience = naps
    /\ result_max = records
    /\ state = start_date
    /\ cfg_buffer_days \in bufferDays
    /\ sync_interval \in {IntervalDays(d) : d \in daysPerJob}
    /\ now \in nows
    /\ pc = "idle"
    /\ end_date = None
    /\ windows = <<>>
    /\ jobs = <<>>
    /\ cur = 0
    /\ start_time = None
    /\ sleep_seconds = None
    /\ sleeps = <<>>
    /\ async_status = NoneStr
    /\ job_progress_pct = None
    /\ runtime = None
    /\ error = NoneStr
    /\ latest_cursor = None
    /\ nread = 0
    /\ yielded = <<>>
    /\ returned = {}
    /\ retrieved = {}
    /\ late = 0
    /\ seen = <<>>
    /\ out = <<>>
    /\ tries = 0

\* _status_slices has not been called: an AdsInsights stream, whose class sets
\* entity_prefix = "" and leaves split_deleted_filter False
NoSlices ==
    /\ split_deleted_filter = FALSE
    /\ split_length = 3
    /\ entity_prefix = ""
    /\ sub_list_length = None
    /\ slice_i = None
    /\ slices = <<>>
    /\ slice_pc = "idle"
    /\ slicing = "idle"
    /\ out_slices = <<>>

\* read_records of the CloudTrail stream has not been called
NoPages ==
    /\ pages = <<>>
    /\ read_pc = "idle"
    /\ pagination_complete = FALSE
    /\ next_page_token = None
    /\ response = EmptyDict
    /\ event_i = 0
    /\ requests = <<>>
    /\ responses = <<>>
    /\ read_out = <<>>

\* get_updated_state has not been called: an AdsInsights stream, whose class
\* leaves enable_deleted False
NoCalls ==
    /\ stream = "facebook"
    /\ enable_deleted = FALSE
    /\ include_deleted = FALSE
    /\ stream_state = EmptyDict
    /\ history = <<>>

HalfDays == {0, Day \div 2}

\* a vendor whose status fetches always answer, and one whose status fetches may
\* raise a transient FacebookRequestError
Steady == flaky = FALSE
Flaky == flaky = TRUE

\* a run of list() over several windows, against a prompt vendor
InitList ==
    /\ NoCalls
    /\ NoSlices
    /\ NoPages
    /\ Steady
    /\ InitWith({T0},
             {T0 + IntervalDays(k) + h : k \in 0..MaxSpanDays, h \in HalfDays},
             1..MaxDaysPerJob,
             {1},
             Prompt, MaxNaps, MaxRecords)

\* a run of list() over one window, against a slow vendor, on an account without records
InitPoll ==
    /\ NoCalls
    /\ NoSlices
    /\ NoPages
    /\ Steady
    /\ InitWith({T0}, {T0 + IntervalDays(1)}, {1}, {1}, Slow, None, 0)

\* a run of list() over one window, against a vendor whose status fetches may fail
InitRetry ==
    /\ NoCalls
    /\ NoSlices
    /\ NoPages
    /\ Flaky
    /\ InitWith({T0}, {T0 + IntervalDays(1)}, {1}, {1}, Prompt, None, 0)

\* a run of list() over one window, whose job is over when it is first fetched
InitRead ==
    /\ NoCalls
    /\ NoSlices
    /\ NoPages
    /\ Steady
    /\ InitWith({T0}, {T0 + IntervalDays(1)}, {1}, {0, 1}, Prompt, 0, MaxPassRecords)

Init == InitList \/ InitPoll \/ InitRetry \/ InitRead

(***************************************************************************)
(* AdsInsights.list                                                        *)
(***************************************************************************)
\* list() is called: _params starts, end_date = pendulum.now()
ListStart ==
    /\ pc = "idle"
    /\ end_date' = now
    /\ windows' = Params(state, now, sync_interval)
    /\ jobs' = <<>>
    /\ cur' = 0
    /\ pc' = "submit"
    /\ UNCHANGED <<now, state, confVars, pollVars, readVars, error, returned, retrieved, late,
                   out>>

\* first loop: jobs.append(self._get_insights(params))
GetInsights ==
    /\ pc = "submit"
    /\ Len(jobs) < Len(windows)
    /\ jobs' = Append(jobs, [time_range |-> windows[Len(jobs) + 1], submitted |-> now])
    /\ UNCHANGED <<now, state, confVars, pc, end_date, windows, cur, pollVars, readVars,
                   error, returned, retrieved, late, out>>

\* the head of the second loop, were a job awaited as soon as it is submitted
AtLoopHeadEager == pc = "submit" \/ pc = "loop"

\* the second loop is at its head: the first loop is over, or a pass has ended
AtLoopHead == (pc = "submit" /\ Len(jobs) = Len(windows)) \/ pc = "loop"

\* second loop: the next job is taken and wait_for_job(job) entered
WaitForJob ==
    /\ AtLoopHead
    /\ cur < Len(jobs)
    /\ cur' = cur + 1
    /\ start_time' = now
    /\ sleep_seconds' = factor
    /\ sleeps' = <<>>
    /\ async_status' = NoneStr
    /\ job_progress_pct' = None
    /\ runtime' = None
    /\ tries' = 1
    /\ latest_cursor' = None
    /\ nread' = 0
    /\ yielded' = <<>>
    /\ seen' = <<>>
    /\ pc' = "poll"
    /\ UNCHANGED <<now, state, confVars, end_date, windows, jobs, error,
                   returned, retrieved, late, out>>

\* second loop: no job is left, list() ends
ListReturn ==
    /\ AtLoopHead
    /\ cur = Len(jobs)
    /\ pc' = "done"
    /\ UNCHANGED <<now, state, confVars, end_date, windows, jobs, cur, pollVars, readVars,
                   error, returned, retrieved, late, out>>

(***************************************************************************)
(* One iteration of the loop of wait_for_job: job.api_get(), which takes   *)
(* lat seconds and answers status and pct, then the branch taken.          *)
(***************************************************************************)
Poll(status, pct, lat, outcome) ==
    /\ pc = "poll"
    /\ status \in NonTerminal => (patience = None \/ Len(sleeps) < patience)
    /\ now' = now + lat + (IF outcome = "sleep" THEN sleep_seconds ELSE 0)
    /\ late' = Later(lat)
    /\ async_status' = status
    /\ job_progress_pct' = pct
    /\ runtime' = now + lat - start_time
    /\ WaitOutcome(status, runtime', pct) = outcome
    /\ UNCHANGED <<state, confVars, end_date, windows, jobs, cur, start_time, retrieved,
                   out, tries>>

\* return job; list() goes on to read the job's result
PollCompleted ==
    /\ \E status \in Statuses, pct \in Percents, lat \in Latencies :
          Poll(status, pct, lat, "return")
    /\ returned' = returned \cup {cur}
    /\ pc' = "read"
    /\ latest_cursor' = None
    /\ nread' = 0
    /\ yielded' = <<>>
    /\ seen' = <<>>
    /\ UNCHANGED <<sleep_seconds, sleeps, error>>

\* raise JobTimeoutException(...), were list() to go on to the job's result
RaiseAndRead(outcome) ==
    /\ error' = outcome
    /\ pc' = "read"
    /\ UNCHANGED <<sleep_seconds, sleeps, readVars, returned>>

\* raise JobTimeoutException(...), which list() propagates
Raise(outcome) ==
    /\ error' = outcome
    /\ pc' = "raised"
    /\ UNCHANGED <<sleep_seconds, sleeps, readVars, returned>>

PollFailed ==
    /\ \E status \in Statuses, pct \in Percents, lat \in Latencies :
          Poll(status, pct, lat, "failed")
    /\ Raise("failed")

PollSkipped ==
    /\ \E status \in Statuses, pct \in Percents, lat \in Latencies :
          Poll(status, pct, lat, "skipped")
    /\ Raise("skipped")

PollNotStarted ==
    /\ \E status \in Statuses, pct \in Percents, lat \in Latencies :
          Poll(status, pct, lat, "did not start")
    /\ Raise("did not start")

PollNotFinished ==
    /\ \E status \in Statuses, pct \in Percents, lat \in Latencies :
          Poll(status, pct, lat, "did not finish")
    /\ Raise("did not finish")

\* time.sleep(sleep_seconds), then the next interval
PollSleep ==
    /\ \E status \in Statuses, pct \in Percents, lat \in Latencies :
          Poll(status, pct, lat, "sleep")
    /\ sleeps' = Append(sleeps, sleep_seconds)
    /\ sleep_seconds' = NextSleep(sleep_seconds)
    /\ UNCHANGED <<pc, readVars, error, returned>>

\* job.api_get() raises a transient FacebookRequestError, which leaves wait_for_job:
\* backoff_policy waits and calls wait_for_job(job) again, from its first line
PollRetry ==
    /\ pc = "poll"
    /\ flaky
    /\ Len(sleeps) < MaxFailAt
    /\ tries < max_tries
    /\ tries' = tries + 1
    /\ now' = now + Expo(tries)
    /\ start_time' = now'
    /\ sleep_seconds' = factor
    /\ sleeps' = <<>>
    /\ async_status' = NoneStr
    /\ job_progress_pct' = None
    /\ runtime' = None
    /\ UNCHANGED <<state, confVars, pc, end_date, windows, jobs, cur, readVars, error,
                   returned, retrieved, late, out>>

\* job.api_get() raises in call number max_tries: backoff_policy lets the error go,
\* and list() propagates it
PollGiveUp ==
    /\ pc = "poll"
    /\ flaky
    /\ Len(sleeps) < MaxFailAt
    /\ tries >= max_tries
    /\ error' = "FacebookRequestError"
    /\ pc' = "raised"
    /\ UNCHANGED <<now, state, confVars, end_date, windows, jobs, cur, pollVars, readVars,
                   returned, retrieved, late, out>>

(***************************************************************************)
(* FBMarketingIncrementalStream.read over the result of the current job    *)
(***************************************************************************)
\* the job result produces a record that the filter drops
ReadSkip ==
    /\ pc = "read"
    /\ nread < result_max
    /\ \E cursor \in CursorValues :
          /\ Filtered(state, cursor)
          /\ seen' = Append(seen, [cursor |-> cursor, yielded |-> FALSE])
          /\ nread' = nread + 1
    /\ retrieved' = retrieved \cup {cur}
    /\ UNCHANGED <<now, state, confVars, pc, end_date, windows, jobs, cur, pollVars,
                   error, latest_cursor, yielded, returned, late, out>>

\* the job result produces a record that is yielded
ReadYield ==
    /\ pc = "read"
    /\ nread < result_max
    /\ \E cursor \in CursorValues :
          /\ ~Filtered(state, cursor)
          /\ latest_cursor' = NextLatest(latest_cursor, cursor)
          /\ yielded' = Append(yielded, cursor)
          /\ seen' = Append(seen, [cursor |-> cursor, yielded |-> TRUE])
          /\ out' = Append(out, [job |-> cur, cursor |-> cursor])
          /\ nread' = nread + 1
    /\ retrieved' = retrieved \cup {cur}
    /\ UNCHANGED <<now, state, confVars, pc, end_date, windows, jobs, cur, pollVars,
                   error, returned, late>>

\* the job result is exhausted: the bookmark advances
ReadEnd ==
    /\ pc = "read"
    /\ state' = AdvanceState(state, latest_cursor)
    /\ retrieved' = retrieved \cup {cur}
    /\ pc' = "loop"
    /\ UNCHANGED <<now, confVars, end_date, windows, jobs, cur, pollVars, readVars,
                   error, returned, late, out>>

Next ==
    \/ ListStart
    \/ GetInsights
    \/ WaitForJob
    \/ ListReturn
    \/ PollCompleted
    \/ PollFailed
    \/ PollSkipped
    \/ PollNotStarted
    \/ PollNotFinished
    \/ PollSleep
    \/ PollRetry
    \/ PollGiveUp
    \/ ReadSkip
    \/ ReadYield
    \/ ReadEnd

Spec == Init /\ [][Next]_vars

\* list() is run to its end: a single blocking thread, in which every status
\* fetch returns or raises and every sleep ends, so a step that can be taken is
\* taken
SpecLive == Spec /\ WF_vars(Next)

(***************************************************************************)
(* _params on its own: list() is entered from a wide range of bookmarks,   *)
(* clocks, window sizes and configured buffers, and plans its windows.     *)
(***************************************************************************)
InitParams ==
    /\ NoCalls
    /\ NoSlices
    /\ NoPages
    /\ Steady
    /\ InitWith({T0 + h : h \in HalfDays},
             {T0 + IntervalDays(k) + h : k \in (0 - MaxPlanBuffer)..MaxPlanSpanDays, h \in HalfDays},
             1..MaxPlanDaysPerJob,
             0..MaxPlanBuffer,
             Prompt, None, 0)

SpecParams == InitParams /\ [][ListStart]_vars

(***************************************************************************)
(* get_updated_state on its own: a chain of calls, each given the state    *)
(* the call before it returned, on a Facebook incremental stream or on the *)
(* CloudTrail Events stream.                                               *)
(***************************************************************************)
Stamps == 0..MaxStamp

\* the states a run may find persisted
FBStates ==
    {c @@ f : c \in {EmptyDict} \cup {cursor_field :> Str(t) : t \in Stamps},
              f \in {EmptyDict} \cup {"include_deleted" :> b : b \in BOOLEAN}}
CTStates == {EmptyDict} \cup {ct_cursor_field :> t : t \in Stamps}

InitState ==
    /\ InitWith(Stamps, {T0}, {1}, {1}, Prompt, None, 0)
    /\ Steady
    /\ NoSlices
    /\ NoPages
    /\ history = <<>>
    /\ \/ /\ stream = "facebook"
          /\ enable_deleted \in BOOLEAN
          /\ include_deleted \in BOOLEAN
          /\ stream_state \in FBStates
       \/ /\ stream = "cloudtrail"
          /\ start_date = 0
          /\ enable_deleted = FALSE
          /\ include_deleted = FALSE
          /\ stream_state \in CTStates

\* one call, and its result persisted
Call(latest_record, logged, result) ==
    /\ Len(history) < MaxCalls
    /\ history' = Append(history, [current_stream_state |-> stream_state,
                                    latest_record |-> latest_record,
                                    logged |-> logged,
                                    result |-> result])
    /\ stream_state' = result
    /\ UNCHANGED <<listVars, stream, enable_deleted, include_deleted>>

FBUpdate ==
    /\ stream = "facebook"
    /\ \E t \in Stamps :
          LET latest_record == cursor_field :> Str(t)
          IN  Call(latest_record,
                   PotentiallyNewRecordsInThePast(stream_state),
                   FBGetUpdatedState(stream_state, latest_record))

CTUpdate ==
    /\ stream = "cloudtrail"
    /\ \E t \in Stamps :
          LET latest_record == time_field :> t
          IN  Call(latest_record, FALSE, CTGetUpdatedState(stream_state, latest_record))

NextState == FBUpdate \/ CTUpdate

SpecState == InitState /\ [][NextState]_vars

(***************************************************************************)
(* FBMarketingStream._status_slices on its own                             *)
(***************************************************************************)
filt_values ==
    <<"active", "archived", "completed", "limited", "not_delivering", "deleted",
      "not_published", "pending_review", "permanently_deleted", "recently_completed",
      "recently_rejected", "rejected", "scheduled", "inactive">>

\* seq[a : b] of Python, for 0 <= a, were the upper index taken in
SliceInclusive(seq, a, b) == SubSeq(seq, a + 1, Min(b + 1, Len(seq)))

\* seq[a : b] of Python, for 0 <= a: the upper index stops at the end of seq
Slice(seq, a, b) == SubSeq(seq, a + 1, Min(b, Len(seq)))

\* sub_list_length = 3 if self.split_deleted_filter else len(filt_values)
SubListLength == IF split_deleted_filter THEN split_length ELSE Len(filt_values)

\* the dict yielded for one chunk; the f-string is kept as its two parts
StatusFilter(value) ==
    [filtering |-> <<[field |-> <<entity_prefix, ".delivery_info">>,
                      operator |-> "IN",
                      value |-> value]>>]

\* what is left of the model stays as list() left it
baseVars == <<now, state, pc, end_date, windows, jobs, cur, pollVars, readVars, error,
              returned, retrieved, late, out, start_date, cfg_buffer_days, sync_interval,
              latency, flaky, patience, result_max, stateVars>>

\* the streams whose class sets enable_deleted: Ads, AdSets, Campaigns
DeletedPrefixes == {"ad", "adset", "campaign"}

\* the streams whose class leaves enable_deleted False: AdCreatives, AdsInsights
PlainPrefixes == {"adcreative", ""}

\* the stream classes of streams.py
StreamClasses ==
    {[entity_prefix |-> p, enable_deleted |-> TRUE] : p \in DeletedPrefixes}
        \cup {[entity_prefix |-> p, enable_deleted |-> FALSE] : p \in PlainPrefixes}

\* a stream of one of these classes, or of a subclass that splits the filter,
\* into chunks of 3 labels as line 100 has it or of any other length
InitSlices ==
    /\ Steady
    /\ InitWith({T0}, {T0}, {1}, {1}, Prompt, None, 0)
    /\ NoPages
    /\ stream = "facebook"
    /\ stream_state = EmptyDict
    /\ history = <<>>
    /\ \E class \in StreamClasses :
          /\ entity_prefix = class.entity_prefix
          /\ enable_deleted = class.enable_deleted
    /\ include_deleted \in BOOLEAN
    /\ split_deleted_filter \in BOOLEAN
    /\ split_length \in 1..MaxChunk
    /\ sub_list_length = None
    /\ slice_i = None
    /\ slices = <<>>
    /\ slice_pc = "idle"
    /\ slicing = "idle"
    /\ out_slices = <<>>

\* stream_slices is called and its generator started, on a stream whose class
\* sets enable_deleted: yield from self._status_slices()
StreamSlicesDelegate ==
    /\ slicing = "idle"
    /\ slice_pc = "idle"
    /\ enable_deleted
    /\ slicing' = "delegating"
    /\ UNCHANGED <<baseVars, pageVars, split_deleted_filter, split_length, entity_prefix,
                   sub_list_length, slice_i, slices, slice_pc, out_slices>>

\* stream_slices is called and its generator started, on any other stream:
\* return [None] ends the generator, which has yielded nothing; the list is the
\* value of its StopIteration, which an iteration over the generator drops
StreamSlicesReturn ==
    /\ slicing = "idle"
    /\ slice_pc = "idle"
    /\ ~enable_deleted
    /\ slicing' = "done"
    /\ UNCHANGED <<baseVars, pageVars, split_deleted_filter, split_length, entity_prefix,
                   sub_list_length, slice_i, slices, slice_pc, out_slices>>

\* _status_slices is called and its generator started: by stream_slices, or
\* by read() when self._include_deleted
SliceStart ==
    /\ slice_pc = "idle"
    /\ slicing = "delegating" \/ (slicing = "idle" /\ IncludeDeleted)
    /\ sub_list_length' = SubListLength
    /\ slice_i' = 0
    /\ slice_pc' = "loop"
    /\ UNCHANGED <<baseVars, pageVars, split_deleted_filter, split_length, entity_prefix,
                   slices, slicing, out_slices>>

\* one iteration of for i in range(0, len(filt_values), sub_list_length); the
\* yield from of stream_slices passes the dict on
SliceYield ==
    /\ slice_pc = "loop"
    /\ slice_i < Len(filt_values)
    /\ slices' = Append(slices,
                        StatusFilter(Slice(filt_values, slice_i, slice_i + sub_list_length)))
    /\ out_slices' = IF slicing = "delegating"
                     THEN Append(out_slices, slices'[Len(slices')])
                     ELSE out_slices
    /\ slice_i' = slice_i + sub_list_length
    /\ UNCHANGED <<baseVars, pageVars, split_deleted_filter, split_length, entity_prefix,
                   sub_list_length, slice_pc, slicing>>

\* the range is exhausted
SliceEnd ==
    /\ slice_pc = "loop"
    /\ slice_i >= Len(filt_values)
    /\ slice_pc' = "done"
    /\ slicing' = IF slicing = "delegating" THEN "done" ELSE slicing
    /\ UNCHANGED <<baseVars, pageVars, split_deleted_filter, split_length, entity_prefix,
                   sub_list_length, slice_i, slices, out_slices>>

NextSlices ==
    \/ StreamSlicesDelegate
    \/ StreamSlicesReturn
    \/ SliceStart
    \/ SliceYield
    \/ SliceEnd

SpecSlices == InitSlices /\ [][NextSlices]_vars

(***************************************************************************)
(* IncrementalAwsCloudtrailStream.read_records on its own.                 *)
(*                                                                         *)
(* A timestamp is a number of seconds.  The datetime of an event in a      *)
(* response is a number of half seconds, so that int() has a fraction to   *)
(* drop.  A page token is a number other than 0.                           *)
(***************************************************************************)
limit == 25
data_field == "Events"

\* int(datetime.timestamp(date))
DatetimeToTimestamp(date) == date \div 2

\* the test of `if v:` for a number or None
Truthy(v) == v # None /\ v # 0

\* next_page_token, were the token looked up under another key
NextPageTokenOtherKey(resp) == Get(resp, "nextToken", None)

\* response.get('NextToken')
NextPageToken(resp) == Get(resp, "NextToken", None)

\* AwsCloudtrailStream.request_params
BaseRequestParams(token) ==
    LET params == "MaxResults" :> limit
        started == IF Truthy(start_date) THEN ("StartTime" :> start_date) @@ params
                   ELSE params
    IN  IF Truthy(token) THEN ("NextToken" :> token) @@ started ELSE started

\* request_params, were the cursor of the state applied to the first request only
RequestParamsFirstOnly(st, token) ==
    LET params == BaseRequestParams(token)
        cursor_data == Get(st, ct_cursor_field, None)
    IN  IF Truthy(cursor_data) /\ ~Truthy(token)
        THEN (ct_cursor_field :> cursor_data) @@ params
        ELSE params

\* IncrementalAwsCloudtrailStream.request_params
RequestParams(st, token) ==
    LET params == BaseRequestParams(token)
        cursor_data == Get(st, ct_cursor_field, None)
    IN  IF Truthy(cursor_data) THEN (ct_cursor_field :> cursor_data) @@ params ELSE params

\* one event as parse_response yields it
ParseEvent(event) == (time_field :> DatetimeToTimestamp(event[time_field])) @@ event

\* the vendor: event number j of page number k, the token that leads on from
\* page k, and page k of n as lookup_events answers it
Event(k, j) == ("EventId" :> (10 * k + j)) @@ (time_field :> (2 * (10 * k + j) + 1))
Token(k) == 2 * k + 1
Response(k, n, size) ==
    LET events == data_field :> [j \in 1..size |-> Event(k, j)]
    IN  IF k < n THEN ("NextToken" :> Token(k)) @@ events ELSE events

\* the page a token leads to
Known(token) ==
    \E k \in 1..(Len(pages) - 1) : NextPageToken(pages[k]) = token
PageAfter(token) ==
    (CHOOSE k \in 1..(Len(pages) - 1) : NextPageToken(pages[k]) = token) + 1

\* self.client.lookup_events(**params)
LookupEvents(params) ==
    IF "NextToken" \in DOMAIN params THEN pages[PageAfter(params["NextToken"])] ELSE pages[1]

\* the timestamps of start dates and persisted cursors
CTTimes == 1..MaxStamp

\* the Events stream, with or without a persisted cursor, and the pages of the
\* vendor: every page but the last carries a token
InitPages ==
    /\ InitWith(CTTimes, {T0}, {1}, {1}, Prompt, None, 0)
    /\ Steady
    /\ NoSlices
    /\ stream = "cloudtrail"
    /\ enable_deleted = FALSE
    /\ include_deleted = FALSE
    /\ history = <<>>
    /\ stream_state \in {EmptyDict} \cup {ct_cursor_field :> t : t \in CTTimes}
    /\ \E n \in 1..MaxPages :
          \E sizes \in [1..n -> 0..MaxPageSize] :
             pages = [k \in 1..n |-> Response(k, n, sizes[k])]
    /\ read_pc = "idle"
    /\ pagination_complete = FALSE
    /\ next_page_token = None
    /\ response = EmptyDict
    /\ event_i = 0
    /\ requests = <<>>
    /\ responses = <<>>
    /\ read_out = <<>>

\* read_records is called and its generator started; stream_state or {} leaves a
\* dict as it is
ReadRecordsStart ==
    /\ read_pc = "idle"
    /\ pagination_complete' = FALSE
    /\ next_page_token' = None
    /\ read_pc' = "while"
    /\ UNCHANGED <<baseVars, sliceVars, pages, response, event_i, requests, responses,
                   read_out>>

\* params = self.request_params(...); response = self.send_request(**params)
SendRequest ==
    /\ read_pc = "while"
    /\ ~pagination_complete
    /\ LET params == RequestParams(stream_state, next_page_token)
       IN  /\ "NextToken" \in DOMAIN params => Known(params["NextToken"])
           /\ requests' = Append(requests, params)
           /\ response' = LookupEvents(params)
    /\ responses' = Append(responses, response')
    /\ event_i' = 0
    /\ read_pc' = "parse"
    /\ UNCHANGED <<baseVars, sliceVars, pages, pagination_complete, next_page_token,
                   read_out>>

\* yield from self.parse_response(response): one event
YieldEvent ==
    /\ read_pc = "parse"
    /\ event_i < Len(response[data_field])
    /\ read_out' = Append(read_out, ParseEvent(response[data_field][event_i + 1]))
    /\ event_i' = event_i + 1
    /\ UNCHANGED <<baseVars, sliceVars, pages, read_pc, pagination_complete,
                   next_page_token, response, requests, responses>>

\* next_page_token = self.next_page_token(response), and the test that follows
NextPage ==
    /\ read_pc = "parse"
    /\ event_i = Len(response[data_field])
    /\ next_page_token' = NextPageToken(response)
    /\ pagination_complete' = IF ~Truthy(next_page_token') THEN TRUE ELSE pagination_complete
    /\ read_pc' = "while"
    /\ UNCHANGED <<baseVars, sliceVars, pages, response, event_i, requests, responses,
                   read_out>>

\* the while loop ends, and read_records with it
ReadRecordsEnd ==
    /\ read_pc = "while"
    /\ pagination_complete
    /\ read_pc' = "done"
    /\ UNCHANGED <<baseVars, sliceVars, pages, pagination_complete, next_page_token,
                   response, event_i, requests, responses, read_out>>

NextPages ==
    \/ ReadRecordsStart
    \/ SendRequest
    \/ YieldEvent
    \/ NextPage
    \/ ReadRecordsEnd

\* the generator is consumed to its end: a step that can be taken is taken
SpecPages == InitPages /\ [][NextPages]_vars /\ WF_vars(NextPages)

(***************************************************************************)
(* Claims                                                                  *)
(***************************************************************************)
\* _params has planned its windows and the bookmark is still the one it read
Planned == pc = "submit"

\* C1: the intervals wait_for_job sleeps are 2, 4, 8, ..., 256, 300, 300, ...:
\* the i-th is min(2^i, 300), so none exceeds 300 s and none is shorter than
\* the one before it.
C1_SleepSequence ==
    \A i \in 1..Len(sleeps) :
        /\ sleeps[i] = Min(2 ^ i, 300)
        /\ sleeps[i] <= 300
        /\ i > 1 => sleeps[i] >= sleeps[i - 1]

\* the k-th start the spec plans from: W - B days + (k - 1) * D
ClaimedStart(k) == state - IntervalDays(cfg_buffer_days) + (k - 1) * sync_interval
\* the number of such starts that are <= now
ClaimedCount ==
    IF ClaimedStart(1) > end_date THEN 0
    ELSE (end_date - ClaimedStart(1)) \div sync_interval + 1

\* C2: for watermark W, configured buffer B, window size D and clock now,
\* _params emits, in ascending order, exactly the windows [start, start + D)
\* with start = W - B, W - B + D, ... for every start <= now.
C2_WindowPlanning ==
    Planned =>
        /\ Len(windows) = ClaimedCount
        /\ \A k \in 1..Len(windows) :
              windows[k] = TimeRange(ClaimedStart(k), ClaimedStart(k) + sync_interval)

\* C3 as stated: no window extends beyond now (the last one is clipped to
\* now) and every earlier window is D days long.
C3_WindowClipping ==
    Planned =>
        \A k \in 1..Len(windows) :
            /\ windows[k].until <= ToDateString(end_date)
            /\ k < Len(windows) => IntervalDays(windows[k].until - windows[k].since) = sync_interval

\* C3, amended: every window _params emits, the last one included, is exactly
\* D days long; nothing is clipped to now.
C3_WindowLength ==
    Planned =>
        \A k \in 1..Len(windows) :
            IntervalDays(windows[k].until - windows[k].since) = sync_interval

\* several windows are planned and the last one ends after today
C3_Witness ==
    /\ Planned
    /\ Len(windows) >= 2
    /\ windows[Len(windows)].until > ToDateString(end_date)

\* C4: the tracked watermark never decreases, whatever the passes read.
C4_MonotonicWatermark == [][state' >= state]_vars

\* a second pass has ended, and it yielded a record
C4_Witness == pc = "loop" /\ cur = 2 /\ yielded # <<>> /\ state > start_date

\* the last status fetch of the running wait_for_job saw a job that is not over
SawNonTerminal == pc \in {"poll", "raised"} /\ async_status \in NonTerminal

\* C8: a poll that sees a non-terminal status raises "did not start" exactly
\* when the elapsed time is strictly above 5 minutes and progress is 0%: not
\* at 5:00 or below, and never with progress above 0%.
C8_StartTimeout ==
    SawNonTerminal =>
        ((pc = "raised" /\ error = "did not start") <=> (runtime > 5 * 60 /\ job_progress_pct = 0))

\* at 5:01 with progress 0% the start timeout is raised
C8_Witness ==
    /\ SawNonTerminal
    /\ runtime = 5 * 60 + 1
    /\ job_progress_pct = 0
    /\ error = "did not start"

\* C9 as stated: a poll that sees a non-terminal status after more than 30
\* minutes raises "did not finish", whatever the progress.
C9_FinishTimeout ==
    (SawNonTerminal /\ runtime > 30 * 60) => (pc = "raised" /\ error = "did not finish")

\* C9, amended: such a poll always raises a JobTimeoutException, "did not
\* finish" when progress is above 0% and "did not start" when it is 0%.
C9_TimeoutAfterThirtyMinutes ==
    (SawNonTerminal /\ runtime > 30 * 60) =>
        /\ pc = "raised"
        /\ error = (IF job_progress_pct = 0 THEN "did not start" ELSE "did not finish")

\* after more than 30 minutes a job at 0% is reported as not started
C9_Witness ==
    /\ SawNonTerminal
    /\ runtime > 30 * 60
    /\ job_progress_pct = 0
    /\ error = "did not start"

\* C10: wait_for_job returns exactly when a poll sees "Job Completed",
\* whatever the elapsed time; "Job Failed" and "Job Skipped" raise; and
\* list() reads the result of a job only after wait_for_job returned for it.
C10_CompletedOnly ==
    /\ async_status = JobCompleted => (cur \in returned /\ error = NoneStr)
    /\ cur \in returned => async_status = JobCompleted
    /\ async_status = JobFailed => (pc = "raised" /\ error = "failed")
    /\ async_status = JobSkipped => (pc = "raised" /\ error = "skipped")
    /\ pc = "read" => cur \in returned
    /\ retrieved \subseteq returned

\* a job seen completed after more than 30 minutes is returned and its result read
C10_Witness ==
    /\ async_status = JobCompleted
    /\ runtime > 30 * 60
    /\ cur \in retrieved

\* the calls made on the Facebook stream, and on the CloudTrail stream
FBCalls == IF stream = "facebook" THEN 1..Len(history) ELSE {}
CTCalls == IF stream = "cloudtrail" THEN 1..Len(history) ELSE {}
\* the cursor of a Facebook state or record, zero when it has none
FBCursor(d) == IF cursor_field \in DOMAIN d THEN Parse(d[cursor_field]) ELSE 0

\* C5: get_updated_state returns max(latest record's cursor, current state's
\* cursor or zero) as the cursor, which therefore is never below the cursor
\* of current_state: on the CloudTrail stream and on the Facebook stream.
C5_CursorUpdate ==
    /\ \A i \in CTCalls :
          LET call == history[i]
          IN  /\ call.result[ct_cursor_field] =
                     Max(call.latest_record[time_field], Get(call.current_stream_state, ct_cursor_field, 0))
              /\ call.result[ct_cursor_field] >= Get(call.current_stream_state, ct_cursor_field, 0)
    /\ \A i \in FBCalls :
          LET call == history[i]
          IN  /\ FBCursor(call.result) =
                     Max(FBCursor(call.latest_record), FBCursor(call.current_stream_state))
              /\ FBCursor(call.result) >= FBCursor(call.current_stream_state)

Awaiting == pc \in {"poll", "read", "loop", "raised", "done"}

\* C11: in list() every job is submitted before the first status fetch of any
\* job: once a job is awaited, there is a job for every window, in the order of
\* the windows.  The jobs are then awaited and their results read one at a
\* time, in that order: while job number cur is awaited, the jobs before it,
\* and no others, have returned and been read, and list() has yielded the
\* records of the jobs in the order of the jobs.
C11_SubmitAllThenPoll ==
    /\ Len(jobs) <= Len(windows)
    /\ \A i \in 1..Len(jobs) : jobs[i].time_range = windows[i]
    /\ (Awaiting \/ cur > 0) => Len(jobs) = Len(windows)
    /\ pc = "poll" => returned = 1..(cur - 1) /\ retrieved = 1..(cur - 1)
    /\ pc = "read" => returned = 1..cur /\ 1..(cur - 1) \subseteq retrieved
                                       /\ retrieved \subseteq 1..cur
    /\ pc = "loop" => returned = 1..cur /\ retrieved = 1..cur
    /\ \A i \in 1..Len(out) : \A j \in i..Len(out) : out[i].job <= out[j].job

\* the second of several jobs has returned, after the first was read
C11_Witness == pc = "read" /\ cur = 2 /\ Len(jobs) >= 2 /\ 1 \in retrieved

(***************************************************************************)
(* Claims about one pass of read over the result of a job                  *)
(***************************************************************************)
\* C14: in a pass of read with watermark W (state) and configured buffer B
\* (cfg_buffer_days), a record whose cursor lies in [W - B days, W] is not
\* yielded, and every record whose cursor is strictly newer than W is yielded.
C14_BufferRefetch ==
    pc = "read" =>
        \A i \in 1..Len(seen) :
            LET cursor == seen[i].cursor
            IN  /\ (state - IntervalDays(cfg_buffer_days) <= cursor /\ cursor <= state)
                       => ~seen[i].yielded
                /\ cursor > state => seen[i].yielded

\* a pass met a record of the re-fetched days before the watermark
C14_Witness ==
    /\ pc = "read"
    /\ \E i \in 1..Len(seen) :
          /\ state - IntervalDays(cfg_buffer_days) <= seen[i].cursor
          /\ seen[i].cursor < state
          /\ ~seen[i].yielded

(***************************************************************************)
(* Claims about the retry of a failed status fetch                         *)
(***************************************************************************)
\* C15: a transient FacebookRequestError raised by a status fetch during
\* polling is retried at the request call and never restarts the loop of
\* wait_for_job: a retry leaves the origin of the elapsed time (start_time)
\* and the current sleep interval (sleep_seconds) as they were, and the
\* number of tries is bounded by a fixed maximum.
C15_RetryKeepsPollLoop ==
    /\ [][(cur' = cur /\ tries' = tries + 1)
             => (start_time' = start_time /\ sleep_seconds' = sleep_seconds)]_vars
    /\ [](tries <= max_tries)

(***************************************************************************)
(* Claims about a job whose wait_for_job raises                            *)
(***************************************************************************)
\* the cursors of the records list() yielded from the result of job number j
OutOf(j) ==
    LET OfJob(o) == o.job = j
        picked == SelectSeq(out, OfJob)
    IN  [i \in 1..Len(picked) |-> picked[i].cursor]

\* the cursors of the records of this pass that read let through
Kept ==
    LET Yielded(r) == r.yielded
        picked == SelectSeq(seen, Yielded)
    IN  [i \in 1..Len(picked) |-> picked[i].cursor]

\* C16: when wait_for_job raises for job number k (cur), list() propagates
\* the error and nothing more happens: no further job is submitted, the
\* results of job k and of the jobs after it are never retrieved, and the
\* records list() has yielded are exactly the filtered results of jobs
\* 1..k-1: they come from those jobs only, and in every pass over a job's
\* result list() yields the records that pass the filter, and no others.
C16_ErrorEndsList ==
    /\ error # NoneStr =>
          /\ pc = "raised"
          /\ ~ENABLED Next
          /\ Len(jobs) = Len(windows)
          /\ returned = 1..(cur - 1)
          /\ retrieved = 1..(cur - 1)
          /\ \A i \in 1..Len(out) : out[i].job \in 1..(cur - 1)
    /\ pc = "read" =>
          /\ \A i \in 1..Len(seen) : seen[i].yielded <=> ~Filtered(state, seen[i].cursor)
          /\ OutOf(cur) = Kept
    /\ pc = "loop" => OutOf(cur) = Kept

\* wait_for_job raises for the second job, after the first job's records were yielded
C16_Witness == pc = "raised" /\ cur = 2 /\ error # NoneStr /\ OutOf(1) # <<>>

(***************************************************************************)
(* Claims about the origin of the elapsed time                             *)
(***************************************************************************)
\* C17: for every job, the later jobs that wait while earlier jobs are polled
\* included, the elapsed time compared with the 5-minute and 30-minute
\* thresholds is measured from the submission of that job, not from the
\* moment its polling began: in the first call of wait_for_job for a job,
\* the origin start_time is the time the job was submitted at.
C17_ClockFromSubmission ==
    (pc = "poll" /\ tries = 1) => start_time = jobs[cur].submitted

(***************************************************************************)
(* Claims about the watermark and the filter of one pass                   *)
(***************************************************************************)
\* the greatest element of a non-empty sequence of DateTimes
Greatest(seq) == CHOOSE m \in {seq[i] : i \in 1..Len(seq)} : \A i \in 1..Len(seq) : seq[i] <= m

\* C18: a pass that is consumed to its end leaves the watermark at the
\* greater of the watermark before the pass and the greatest cursor among the
\* records the pass yielded, and leaves it as it was if the pass yielded
\* none; while the pass is still yielding the watermark is not modified.
C18_WatermarkAfterPass ==
    [][pc = "read" =>
          IF pc' = "loop"
          THEN state' = (IF yielded = <<>> THEN state ELSE Max(state, Greatest(yielded)))
          ELSE state' = state]_vars

\* a pass has ended that yielded two records, the newer one first
C18_Witness ==
    /\ pc = "loop"
    /\ Len(yielded) = 2
    /\ yielded[1] > yielded[2]
    /\ state = yielded[1]

\* the boundary of the filter of read
Boundary == state - IntervalDays(buffer_days + 1)

\* C19: with watermark W and buffer_days B, read drops a record exactly when
\* its cursor is strictly older than W - (B + 1) days; a record whose cursor
\* equals that boundary is yielded.
C19_DropStrictlyOlder ==
    pc = "read" => \A i \in 1..Len(seen) : ~seen[i].yielded <=> seen[i].cursor < Boundary

\* C19, as the code has it: read drops a record exactly when its cursor is at
\* or before W - (B + 1) days; a record whose cursor equals that boundary is
\* dropped, and a record is yielded exactly when it is strictly newer.
C19_DropAtOrBefore ==
    pc = "read" => \A i \in 1..Len(seen) : ~seen[i].yielded <=> seen[i].cursor <= Boundary

\* a pass met a record whose cursor is the boundary
C19_Witness ==
    pc = "read" /\ \E i \in 1..Len(seen) : seen[i].cursor = Boundary /\ ~seen[i].yielded

(***************************************************************************)
(* Claims about _status_slices                                             *)
(***************************************************************************)
\* the chunks of labels yielded so far
Chunks == [k \in 1..Len(slices) |-> slices[k].filtering[1].value]

RECURSIVE Concat(_)
Concat(seqs) == IF seqs = <<>> THEN <<>> ELSE Head(seqs) \o Concat(Tail(seqs))

\* the places a label has in the chunks yielded so far
Places(label) ==
    {<<k, j>> \in (1..Len(slices)) \X (1..Len(filt_values)) :
        j <= Len(Chunks[k]) /\ Chunks[k][j] = label}

\* C13: _status_slices yields non-overlapping chunks of the 14 status labels,
\* in the order of the enumeration: no chunk is empty or longer than the
\* chunk size, what has been yielded so far is a prefix of the enumeration,
\* and when the generator ends the chunks together are the whole enumeration,
\* each label in exactly one place; this for every chunk size from 1 on.
C13_StatusSlices ==
    /\ slice_pc \in {"loop", "done"} =>
          /\ sub_list_length >= 1
          /\ \A k \in 1..Len(slices) :
                Len(Chunks[k]) >= 1 /\ Len(Chunks[k]) <= sub_list_length
          /\ Concat(Chunks) = SubSeq(filt_values, 1, Min(slice_i, Len(filt_values)))
          /\ \A k \in 1..Len(filt_values) : Cardinality(Places(filt_values[k])) <= 1
    /\ slice_pc = "done" =>
          /\ Concat(Chunks) = filt_values
          /\ \A k \in 1..Len(filt_values) : Cardinality(Places(filt_values[k])) = 1

\* a split filter of chunks of 3 labels has been yielded whole: the last chunk is shorter
C13_Witness ==
    /\ slice_pc = "done"
    /\ split_deleted_filter
    /\ sub_list_length = 3
    /\ Len(slices) = 5
    /\ Len(Chunks[5]) = 2

(***************************************************************************)
(* Claims about read_records of the CloudTrail stream                      *)
(***************************************************************************)
\* the events of the first n pages, parsed, in page order
ParsedUpTo(n) ==
    Concat([k \in 1..n |->
               [j \in 1..Len(pages[k][data_field]) |-> ParseEvent(pages[k][data_field][j])]])

\* where read_records stands: it has yielded the events of the pages before
\* the current one and the first event_i events of the current one, with one
\* request per page, and it ends only after a response without a token
Paginating ==
    /\ Len(requests) <= Len(pages)
    /\ Len(responses) = Len(requests)
    /\ \A k \in 1..Len(responses) : responses[k] = pages[k]
    /\ read_pc = "parse" =>
          read_out = ParsedUpTo(Len(requests) - 1)
                         \o SubSeq(ParsedUpTo(Len(requests)),
                                   Len(ParsedUpTo(Len(requests) - 1)) + 1,
                                   Len(ParsedUpTo(Len(requests) - 1)) + event_i)
    /\ read_pc = "while" => read_out = ParsedUpTo(Len(requests))
    /\ pagination_complete =>
          /\ Len(requests) >= 1
          /\ "NextToken" \notin DOMAIN responses[Len(requests)]
          /\ \A k \in 1..(Len(requests) - 1) : "NextToken" \in DOMAIN responses[k]
    /\ read_pc = "done" =>
          /\ pagination_complete
          /\ Len(requests) = Len(pages)
          /\ read_out = ParsedUpTo(Len(pages))
          /\ \A a \in 1..Len(read_out) : \A b \in 1..Len(read_out) :
                read_out[a]["EventId"] = read_out[b]["EventId"] => a = b

\* C12: given a finite sequence of pages, each but the last carrying a next
\* token, read_records yields every record of every page exactly once, in
\* page order, issues exactly one request per page, and terminates after the
\* first response that carries no token.
C12_Pagination == []Paginating /\ <>(read_pc = "done")

\* read_records has ended after several pages, one of them empty
C12_Witness ==
    /\ read_pc = "done"
    /\ Len(pages) = 3
    /\ Len(requests) = 3
    /\ Len(pages[2][data_field]) = 0
    /\ Len(read_out) = 4

\* C20: within one call of read_records the first request carries no
\* NextToken, every later request carries exactly the token of the response
\* just before it, and MaxResults and StartTime (the persisted cursor when
\* stream_state has one, otherwise the configured start date) are the same in
\* every request.
C20_TokenRoundTrip ==
    \A k \in 1..Len(requests) :
        /\ k = 1 => "NextToken" \notin DOMAIN requests[k]
        /\ k > 1 => /\ "NextToken" \in DOMAIN requests[k]
                    /\ requests[k]["NextToken"] = responses[k - 1]["NextToken"]
        /\ DOMAIN requests[k] \subseteq {"MaxResults", "StartTime", "NextToken"}
        /\ requests[k]["MaxResults"] = limit
        /\ "StartTime" \in DOMAIN requests[k]
        /\ requests[k]["StartTime"] =
              (IF ct_cursor_field \in DOMAIN stream_state
               THEN stream_state[ct_cursor_field]
               ELSE start_date)

\* a third request has been sent, on a stream whose state holds a cursor
\* other than the start date
C20_Witness ==
    /\ Len(requests) = 3
    /\ ct_cursor_field \in DOMAIN stream_state
    /\ stream_state[ct_cursor_field] # start_date
    /\ requests[3]["NextToken"] = Token(2)

(***************************************************************************)
(* Claims about include_deleted in the persisted state                     *)
(***************************************************************************)
\* C21: every state get_updated_state returns on a Facebook incremental
\* stream carries include_deleted, equal to the stream's effective flag: the
\* configured include_deleted, false when the class leaves enable_deleted
\* false.  So a call that is given the state the call before it returned
\* never takes the "Ignoring bookmark" branch.
C21_FlagCarried ==
    \A i \in FBCalls :
        LET call == history[i]
        IN  /\ "include_deleted" \in DOMAIN call.result
            /\ call.result["include_deleted"] = (enable_deleted /\ include_deleted)
            /\ (i > 1 /\ call.current_stream_state = history[i - 1].result) => ~call.logged

\* include_deleted was enabled on a state that did not have it: the first call
\* took the branch, and the call given its result did not
C21_Witness ==
    /\ stream = "facebook"
    /\ enable_deleted
    /\ include_deleted
    /\ Len(history) >= 2
    /\ history[1].logged
    /\ history[2].current_stream_state = history[1].result
    /\ history[2].result["include_deleted"]
    /\ ~history[2].logged

(***************************************************************************)
(* Claims about the end of wait_for_job                                    *)
(***************************************************************************)
\* no status fetch that found the job unfinished more than 30 minutes after
\* start_time was followed by a sleep
NoSleepPastFinish ==
    (pc = "poll" /\ async_status \in NonTerminal) => runtime <= MAX_WAIT_TO_FINISH

\* C22: every call of wait_for_job ends, by returning the completed job or
\* by raising (list() does not stay in wait_for_job, the calls the retry
\* wrapper makes included), whatever statuses and progress values the vendor
\* answers,
\* when every status fetch comes back and the clock advances by the interval
\* slept; and no status fetch finds the job unfinished more than 30 minutes
\* after start_time and is followed by a sleep.
C22_PollerTerminates ==
    /\ []NoSleepPastFinish
    /\ (pc = "poll") ~> (pc \in {"read", "raised"})

\* a call that slept as often as the timeouts allow, and then raised
C22_Witness ==
    /\ pc = "raised"
    /\ Len(sleeps) = 11
    /\ runtime > MAX_WAIT_TO_FINISH
    /\ async_status \in NonTerminal

(***************************************************************************)
(* Claims about stream_slices                                              *)
(***************************************************************************)
\* C23: stream_slices yields at least one slice for every stream: exactly
\* one slice, None, for a stream whose class leaves enable_deleted False, and
\* exactly the slices of _status_slices for a stream whose class sets it.
C23_SliceCount ==
    slicing = "done" =>
        /\ Len(out_slices) >= 1
        /\ ~enable_deleted => (Len(out_slices) = 1 /\ out_slices[1] = None)
        /\ enable_deleted => out_slices = slices

====
